---------------------------- MODULE Spec2Model ----------------------------
(*************************************************************************)
(* Model of bhexpress.api_client (src/bhexpress/api_client/__init__.py): *)
(* the ApiClient constructor, the four request verbs, the request        *)
(* assembly (URL join, header merge, body encoding), the mapping of      *)
(* transport failures and the validation of the response.                *)
(*                                                                       *)
(* Python values are tagged records.  A Python str is a sequence of      *)
(* atoms: an atom is one character that the code or urllib treats        *)
(* specially (" ", "/", ".", "?", "#") or an opaque run of ordinary      *)
(* characters ("v1", "api", "Token ", ...).  Concatenation is \o.        *)
(*************************************************************************)
EXTENDS Naturals, Sequences, FiniteSets, TLC

VARIABLES
    environ,           \* os.environ: variable name -> Python value (PyNone: unset)
    init_args,         \* the arguments given to ApiClient(...)
    client,            \* "unbuilt" | "built" | "failed" (constructor raised)
    init_error,        \* message of the ApiException raised by the constructor
    token,             \* self.token
    url,               \* self.url
    headers,           \* self.headers
    version,           \* self.version
    raise_for_status,  \* self.raise_for_status
    pc,                \* per caller: "idle" | "transport" (blocked in requests.request)
    invoked,           \* per caller: the verb it invoked and the arguments it passed
    call,              \* per caller: the running call (arguments, what the transport got)
    received,          \* per caller: what requests.request produced for its last call
    result,            \* per caller: how the caller's last call ended
    transport_calls    \* per caller: requests.request calls made by the current/last call

vars == <<environ, init_args, client, init_error, token, url, headers, version,
          raise_for_status, pc, invoked, call, received, result, transport_calls>>

self_vars == <<token, url, headers, version, raise_for_status>>

(*************************************************************************)
(* Bounds of the model.                                                  *)
(*************************************************************************)
NumCallers == 2
MaxTokenLen == 3
MaxBaseTail == 3
MaxResourceLen == 4

(*************************************************************************)
(* Python values.                                                        *)
(*************************************************************************)
PyNone == [type |-> "NoneType"]
PyStr(s) == [type |-> "str", chars |-> s]
PyInt(n) == [type |-> "int", n |-> n]
PyBool(b) == [type |-> "bool", b |-> b]
PyList(items) == [type |-> "list", items |-> items]
\* a dict: keys in insertion order, map from each key to its value
PyDict(keys, map) == [type |-> "dict", keys |-> keys, map |-> map]

\* bool(v)
Truthy(v) ==
    CASE v.type = "NoneType" -> FALSE
      [] v.type = "str" -> v.chars # <<>>
      [] v.type = "int" -> v.n # 0
      [] v.type = "bool" -> v.b
      [] v.type = "list" -> v.items # <<>>
      [] v.type = "dict" -> v.keys # <<>>

\* a or b
Or(a, b) == IF Truthy(a) THEN a ELSE b

Whitespace == {" ", "\t", "\n"}

RECURSIVE lstrip(_, _)
lstrip(s, chars) ==
    IF s # <<>> /\ Head(s) \in chars THEN lstrip(Tail(s), chars) ELSE s

RECURSIVE rstrip(_, _)
rstrip(s, chars) ==
    IF s # <<>> /\ s[Len(s)] \in chars THEN rstrip(SubSeq(s, 1, Len(s) - 1), chars) ELSE s

\* str.strip()
strip(s) == rstrip(lstrip(s, Whitespace), Whitespace)

StringsUpTo(atoms, n) == UNION {[1..k -> atoms] : k \in 0..n}

(*************************************************************************)
(* Construction.                                                         *)
(*************************************************************************)
DEFAULT_URL == <<"https:", "/", "/", "bhexpress.cl">>
DEFAULT_VERSION == <<"v1">>

TokenMissingMessage ==
    <<"Se debe configurar la variable de entorno: BHEXPRESS_API_TOKEN.">>

\* os.getenv(name, default)
getenv(env, name, default) ==
    IF env[name].type = "NoneType" THEN default ELSE env[name]

\* ApiClient.__validate_token: the stripped token, or the ApiException raised
validate_token(env, token_arg) ==
    LET t == Or(token_arg, getenv(env, "BHEXPRESS_API_TOKEN", PyNone))
    IN  IF ~Truthy(t)
        THEN [raised |-> TRUE, message |-> TokenMissingMessage, value |-> <<>>]
        ELSE [raised |-> FALSE, message |-> <<>>, value |-> strip(t.chars)]

\* ApiClient.__validate_url
validate_url(env, url_arg) ==
    IF Truthy(url_arg)
    THEN strip(url_arg.chars)
    ELSE strip(getenv(env, "BHEXPRESS_API_URL", PyStr(DEFAULT_URL)).chars)

\* ApiClient.__generate_headers
generate_headers(tok) ==
    [k \in {"User-Agent", "Accept", "Content-Type", "Authorization"} |->
        CASE k = "User-Agent" -> <<"BHExpress: Cliente de API en Python.">>
          [] k = "Accept" -> <<"application/json">>
          [] k = "Content-Type" -> <<"application/json">>
          [] k = "Authorization" -> <<"Token ">> \o tok]

NoHeaders == [k \in {} |-> <<>>]

Callers == 1..NumCallers

\* no call is running: the frame of __request does not exist
NoCall == [method |-> "", resource |-> <<>>, data |-> PyNone,
           headers |-> PyNone, sent |-> [method |-> "", url |-> <<>>,
           headers |-> NoHeaders, data |-> PyNone]]

\* the caller is in no call
NoInvocation == [verb |-> "", resource |-> <<>>, data |-> PyNone, headers |-> PyNone]

NoResponse == [status_code |-> 0, text |-> ""]

NoError == [class |-> "", detail |-> ""]

\* the transport has produced nothing yet
NoTransportResult == [kind |-> "none", response |-> NoResponse, error |-> NoError]

\* the caller has no result yet
NoResult == [kind |-> "none", response |-> NoResponse, message |-> <<>>,
             json_called |-> FALSE]

\* the state before ApiClient(...) runs, with the arguments and the environment
InitWith(TokenArgs, EnvTokens, UrlArgs, EnvUrls, VersionArgs, RaiseArgs) ==
    /\ environ \in [BHEXPRESS_API_TOKEN : EnvTokens, BHEXPRESS_API_URL : EnvUrls]
    /\ init_args \in [token : TokenArgs, url : UrlArgs, version : VersionArgs,
                      raise_for_status : RaiseArgs]
    /\ client = "unbuilt"
    /\ init_error = <<>>
    /\ token = <<>>
    /\ url = <<>>
    /\ headers = NoHeaders
    /\ version = <<>>
    /\ raise_for_status = TRUE
    /\ pc = [c \in Callers |-> "idle"]
    /\ invoked = [c \in Callers |-> NoInvocation]
    /\ call = [c \in Callers |-> NoCall]
    /\ received = [c \in Callers |-> NoTransportResult]
    /\ result = [c \in Callers |-> NoResult]
    /\ transport_calls = [c \in Callers |-> 0]

\* ApiClient.__init__: the token is validated first, and its ApiException
\* leaves no object behind
Construct ==
    /\ client = "unbuilt"
    /\ LET t == validate_token(environ, init_args.token)
       IN  IF t.raised
           THEN /\ client' = "failed"
                /\ init_error' = t.message
                /\ UNCHANGED self_vars
           ELSE /\ client' = "built"
                /\ token' = t.value
                /\ url' = validate_url(environ, init_args.url)
                /\ headers' = generate_headers(t.value)
                /\ version' = Or(init_args.version, PyStr(DEFAULT_VERSION)).chars
                /\ raise_for_status' = init_args.raise_for_status
                /\ UNCHANGED init_error
    /\ UNCHANGED <<environ, init_args, pc, invoked, call, received, result, transport_calls>>

(*************************************************************************)
(* urllib.parse, as far as urljoin(self.url + '/', ...) uses it.  A      *)
(* scheme is one atom that ends with ':' ("https:") and stands at the     *)
(* head of a URL; no atom holds ';', so urlparse's params are empty.      *)
(*************************************************************************)
SchemeAtoms == {"https:", "http:", "mailto:"}
UsesRelative == {<<>>, <<"https:">>, <<"http:">>}
UsesNetloc == {<<>>, <<"https:">>, <<"http:">>}
UnsafeUrlAtoms == {"\t", "\n", "\r"}

\* the least index of s whose atom is in chars, Len(s) + 1 if there is none
Find(s, chars, from) ==
    IF \E i \in from..Len(s) : s[i] \in chars
    THEN CHOOSE i \in from..Len(s) :
            s[i] \in chars /\ \A j \in from..(i - 1) : s[j] \notin chars
    ELSE Len(s) + 1

\* str.split(sep)
RECURSIVE split(_, _)
split(s, sep) ==
    LET i == Find(s, {sep}, 1)
    IN  IF i > Len(s) THEN <<s>>
        ELSE <<SubSeq(s, 1, i - 1)>> \o split(SubSeq(s, i + 1, Len(s)), sep)

\* sep.join(parts)
RECURSIVE join(_, _)
join(parts, sep) ==
    IF parts = <<>> THEN <<>>
    ELSE IF Len(parts) = 1 THEN parts[1]
    ELSE parts[1] \o <<sep>> \o join(Tail(parts), sep)

\* urlsplit, last step: the query is cut from the path at the first '?'
split_query(scheme, netloc, s3, q, fragment) ==
    [scheme |-> scheme, netloc |-> netloc, path |-> SubSeq(s3, 1, q - 1),
     query |-> SubSeq(s3, q + 1, Len(s3)), fragment |-> fragment]

\* urlsplit: the fragment is cut at the first '#'
split_fragment(scheme, netloc, s2, f) ==
    split_query(scheme, netloc, SubSeq(s2, 1, f - 1),
                Find(SubSeq(s2, 1, f - 1), {"?"}, 1), SubSeq(s2, f + 1, Len(s2)))

\* urlsplit: after '//' the netloc runs to the first of '/', '?', '#'
split_netloc(scheme, s1, delim) ==
    IF Len(s1) >= 2 /\ s1[1] = "/" /\ s1[2] = "/"
    THEN split_fragment(scheme, SubSeq(s1, 3, delim - 1), SubSeq(s1, delim, Len(s1)),
                        Find(SubSeq(s1, delim, Len(s1)), {"#"}, 1))
    ELSE split_fragment(scheme, <<>>, s1, Find(s1, {"#"}, 1))

\* urlsplit: a scheme at the head replaces the default scheme
split_scheme(s0, scheme) ==
    IF s0 # <<>> /\ Head(s0) \in SchemeAtoms
    THEN split_netloc(<<Head(s0)>>, Tail(s0), Find(Tail(s0), {"/", "?", "#"}, 3))
    ELSE split_netloc(scheme, s0, Find(s0, {"/", "?", "#"}, 3))

\* urllib.parse.urlsplit(u, scheme)
urlsplit(u, scheme) ==
    split_scheme(SelectSeq(lstrip(u, Whitespace), LAMBDA a : a \notin UnsafeUrlAtoms),
                 scheme)

\* urllib.parse.urlunsplit
urlunsplit(p) ==
    (IF p.netloc # <<>>
        \/ (p.scheme # <<>> /\ p.scheme \in UsesNetloc
            /\ ~(Len(p.path) >= 2 /\ p.path[1] = "/" /\ p.path[2] = "/"))
     THEN p.scheme \o <<"/", "/">> \o p.netloc
          \o (IF p.path # <<>> /\ Head(p.path) # "/" THEN <<"/">> ELSE <<>>)
          \o p.path
     ELSE p.scheme \o p.path)
    \o (IF p.query # <<>> THEN <<"?">> \o p.query ELSE <<>>)
    \o (IF p.fragment # <<>> THEN <<"#">> \o p.fragment ELSE <<>>)

\* segments[1:-1] = filter(None, segments[1:-1])
FilterMiddle(segments) ==
    IF Len(segments) < 2 THEN segments
    ELSE <<segments[1]>>
         \o SelectSeq(SubSeq(segments, 2, Len(segments) - 1), LAMBDA g : g # <<>>)
         \o <<segments[Len(segments)]>>

\* the loop of urljoin that resolves '.' and '..'
RECURSIVE ResolveDots(_, _)
ResolveDots(segments, resolved) ==
    IF segments = <<>> THEN resolved
    ELSE ResolveDots(Tail(segments),
            CASE Head(segments) = <<".", ".">> ->
                    IF resolved = <<>> THEN resolved
                    ELSE SubSeq(resolved, 1, Len(resolved) - 1)
              [] Head(segments) = <<".">> -> resolved
              [] OTHER -> Append(resolved, Head(segments)))

\* base_parts of urljoin: bpath.split('/') without a last part that is no directory
base_parts(bp) ==
    IF bp[Len(bp)] # <<>> THEN SubSeq(bp, 1, Len(bp) - 1) ELSE bp

\* urljoin: '/'.join(resolved_path) or '/'
join_path(joined) == IF joined = <<>> THEN <<"/">> ELSE joined

\* urljoin: a last segment '.' or '..' leaves a trailing '/'
resolved_path(segments, dots) ==
    IF segments[Len(segments)] \in {<<".">>, <<".", ".">>} THEN Append(dots, <<>>) ELSE dots

\* urljoin, from the segments on
join_segments(r, netloc, segments) ==
    urlunsplit([scheme |-> r.scheme, netloc |-> netloc,
                path |-> join_path(join(resolved_path(segments,
                                                      ResolveDots(segments, <<>>)), "/")),
                query |-> r.query, fragment |-> r.fragment])

\* urljoin, from the two parsed URLs on
join_parsed(b, r, u, netloc) ==
    IF r.scheme # b.scheme \/ r.scheme \notin UsesRelative THEN u
    ELSE IF r.scheme \in UsesNetloc /\ r.netloc # <<>> THEN urlunsplit(r)
    ELSE IF r.path = <<>>
    THEN urlunsplit([scheme |-> r.scheme, netloc |-> netloc, path |-> b.path,
                     query |-> IF r.query = <<>> THEN b.query ELSE r.query,
                     fragment |-> r.fragment])
    ELSE join_segments(r, netloc,
            IF Head(r.path) = "/" THEN split(r.path, "/")
            ELSE FilterMiddle(base_parts(split(b.path, "/")) \o split(r.path, "/")))

\* urljoin: the relative URL is parsed with the scheme of the base as its default
join_base(b, r, u) ==
    join_parsed(b, r, u, IF r.scheme \in UsesNetloc THEN b.netloc ELSE r.netloc)

\* urljoin: the base is parsed first
join_split(b, u) == join_base(b, urlsplit(u, b.scheme), u)

\* urllib.parse.urljoin(base, u)
urljoin(base, u) ==
    IF base = <<>> THEN u
    ELSE IF u = <<>> THEN base
    ELSE join_split(urlsplit(base, <<>>), u)

\* the URL of __request: urljoin(self.url + '/', api_path.lstrip('/'))
full_url(base_url, ver, resource) ==
    LET api_path == <<"/", "api", "/">> \o ver \o resource
    IN  urljoin(base_url \o <<"/">>, lstrip(api_path, {"/"}))

(*************************************************************************)
(* Request assembly.                                                     *)
(*************************************************************************)
\* faulty variant: {**(headers or {}), **self.headers}, the defaults win
merge_defaults_win(defaults, caller) ==
    LET h == Or(caller, PyDict(<<>>, NoHeaders)).map
    IN  [k \in DOMAIN defaults \cup DOMAIN h |->
            IF k \in DOMAIN defaults THEN defaults[k] ELSE h[k]]

\* {**self.headers, **(headers or {})}
merge_headers(defaults, caller) ==
    LET h == Or(caller, PyDict(<<>>, NoHeaders)).map
    IN  [k \in DOMAIN defaults \cup DOMAIN h |->
            IF k \in DOMAIN h THEN h[k] ELSE defaults[k]]

\* json.dumps(v), default separators; atoms hold nothing to escape
RECURSIVE json_dumps(_)
RECURSIVE dumps_items(_)
RECURSIVE dumps_pairs(_, _)
dumps_items(items) ==
    IF items = <<>> THEN <<>>
    ELSE json_dumps(Head(items))
         \o (IF Len(items) > 1 THEN <<", ">> ELSE <<>>) \o dumps_items(Tail(items))
dumps_pairs(keys, map) ==
    IF keys = <<>> THEN <<>>
    ELSE <<"\"", Head(keys), "\"", ": ">> \o json_dumps(map[Head(keys)])
         \o (IF Len(keys) > 1 THEN <<", ">> ELSE <<>>) \o dumps_pairs(Tail(keys), map)
json_dumps(v) ==
    CASE v.type = "NoneType" -> <<"null">>
      [] v.type = "str" -> <<"\"">> \o v.chars \o <<"\"">>
      [] v.type = "int" -> <<ToString(v.n)>>
      [] v.type = "bool" -> IF v.b THEN <<"true">> ELSE <<"false">>
      [] v.type = "list" -> <<"[">> \o dumps_items(v.items) \o <<"]">>
      [] v.type = "dict" -> <<"{">> \o dumps_pairs(v.keys, v.map) \o <<"}">>

\* if data and not isinstance(data, str): data = json.dumps(data)
encode_body(data) ==
    IF Truthy(data) /\ data.type # "str" THEN PyStr(json_dumps(data)) ELSE data

\* what __request hands to requests.request(method, full_url, data=, headers=)
assemble(method, resource, data, hdrs) ==
    [method |-> method,
     url |-> full_url(url, version, resource),
     headers |-> merge_headers(headers, hdrs),
     data |-> encode_body(data)]

\* faulty variant: self.headers.update(headers or {}), the merge stays in the client
request_leaky(c, method, resource, data, hdrs) ==
    /\ client = "built"
    /\ pc[c] = "idle"
    /\ pc' = [pc EXCEPT ![c] = "transport"]
    /\ call' = [call EXCEPT ![c] =
                  [method |-> method, resource |-> resource, data |-> data,
                   headers |-> hdrs, sent |-> assemble(method, resource, data, hdrs)]]
    /\ transport_calls' = [transport_calls EXCEPT ![c] = 1]
    /\ received' = [received EXCEPT ![c] = NoTransportResult]
    /\ result' = [result EXCEPT ![c] = NoResult]
    /\ headers' = merge_headers(headers, hdrs)
    /\ UNCHANGED <<environ, init_args, client, init_error, token, url, version,
                   raise_for_status>>

\* ApiClient.__request up to the call of requests.request: the frame holds the
\* caller's arguments (its objects, as the code leaves them) and the request sent
request(c, method, resource, data, hdrs) ==
    /\ client = "built"
    /\ pc[c] = "idle"
    /\ pc' = [pc EXCEPT ![c] = "transport"]
    /\ call' = [call EXCEPT ![c] =
                  [method |-> method, resource |-> resource, data |-> data,
                   headers |-> hdrs, sent |-> assemble(method, resource, data, hdrs)]]
    /\ transport_calls' = [transport_calls EXCEPT ![c] = 1]
    /\ received' = [received EXCEPT ![c] = NoTransportResult]
    /\ result' = [result EXCEPT ![c] = NoResult]
    /\ UNCHANGED <<environ, init_args, client, init_error, self_vars>>

\* the caller c invokes a verb with these arguments
Invoke(c, verb, resource, data, hdrs) ==
    invoked' = [invoked EXCEPT ![c] =
                  [verb |-> verb, resource |-> resource, data |-> data, headers |-> hdrs]]

\* ApiClient.get
get(c, resource, hdrs) ==
    /\ Invoke(c, "get", resource, PyNone, hdrs)
    /\ request(c, "GET", resource, PyNone, hdrs)

\* ApiClient.delete
delete(c, resource, hdrs) ==
    /\ Invoke(c, "delete", resource, PyNone, hdrs)
    /\ request(c, "DELETE", resource, PyNone, hdrs)

\* ApiClient.post
post(c, resource, data, hdrs) ==
    /\ Invoke(c, "post", resource, data, hdrs)
    /\ request(c, "POST", resource, data, hdrs)

\* ApiClient.put
put(c, resource, data, hdrs) ==
    /\ Invoke(c, "put", resource, data, hdrs)
    /\ request(c, "PUT", resource, data, hdrs)

(*************************************************************************)
(* The response and its validation.                                      *)
(*************************************************************************)
\* Response.json(): the parse of the texts the transport of this model returns
json_loads(text) ==
    LET obj(keys, map) == [ok |-> TRUE, value |-> PyDict(keys, map)]
        val(v) == [ok |-> TRUE, value |-> v]
        m == PyStr(<<"not found">>)
        e == PyStr(<<"boom">>)
        empty == PyStr(<<>>)
    IN  CASE text = "{}" -> obj(<<>>, NoHeaders)
          [] text = "{\"message\": \"not found\"}" ->
                obj(<<"message">>, [k \in {"message"} |-> m])
          [] text = "{\"exception\": \"boom\"}" ->
                obj(<<"exception">>, [k \in {"exception"} |-> e])
          [] text = "{\"message\": \"not found\", \"exception\": \"boom\"}" ->
                obj(<<"message", "exception">>,
                    [k \in {"message", "exception"} |-> IF k = "message" THEN m ELSE e])
          [] text = "{\"message\": \"\", \"exception\": \"boom\"}" ->
                obj(<<"message", "exception">>,
                    [k \in {"message", "exception"} |-> IF k = "message" THEN empty ELSE e])
          [] text = "{\"message\": null, \"exception\": \"\"}" ->
                obj(<<"message", "exception">>,
                    [k \in {"message", "exception"} |-> IF k = "message" THEN PyNone ELSE empty])
          [] text = "[]" -> val(PyList(<<>>))
          [] text = "\"oops\"" -> val(PyStr(<<"oops">>))
          [] text = "42" -> val(PyInt(42))
          [] text = "null" -> val(PyNone)
          [] OTHER -> [ok |-> FALSE, value |-> PyNone]

\* dict.get(key, '')
dict_get(d, key) == IF key \in DOMAIN d.map THEN d.map[key] ELSE PyStr(<<>>)

\* faulty variant: raise_for_status() raises for every status it is asked about
any_status_is_error(status_code) == TRUE

\* Response.raise_for_status() raises HTTPError
http_error(status_code) == 400 <= status_code /\ status_code < 600

HTTP_ERROR == "Error HTTP: "
JSON_ERROR == "Error al decodificar los datos en JSON: "
UNKNOWN_ERROR == "Error desconocido."

Returned(response) ==
    [kind |-> "return", response |-> response, message |-> <<>>, json_called |-> FALSE]

Raised(kind, message, json_called) ==
    [kind |-> kind, response |-> NoResponse, message |-> message,
     json_called |-> json_called]

\* the except block of __check_and_return_response: the message is taken from
\* the body, and ApiException raised; .get of a value that is no dict raises
\* AttributeError
raise_http_error(response, error) ==
    IF ~error.ok
    THEN Raised("ApiException", <<HTTP_ERROR, JSON_ERROR, response.text>>, TRUE)
    ELSE IF error.value.type # "dict"
    THEN Raised("AttributeError", <<"object has no attribute 'get'">>, TRUE)
    ELSE Raised("ApiException",
                <<HTTP_ERROR>>
                \o Or(Or(dict_get(error.value, "message"),
                         dict_get(error.value, "exception")),
                      PyStr(<<UNKNOWN_ERROR>>)).chars,
                TRUE)

\* faulty variant: the raise_for_status flag of the client is not consulted
check_without_flag(flag, response) ==
    IF response.status_code # 200 /\ http_error(response.status_code)
    THEN raise_http_error(response, json_loads(response.text))
    ELSE Returned(response)

\* ApiClient.__check_and_return_response
check_and_return_response(flag, response) ==
    IF response.status_code # 200 /\ flag /\ http_error(response.status_code)
    THEN raise_http_error(response, json_loads(response.text))
    ELSE Returned(response)

\* requests.request returns; __request validates the response and ends
TransportReturns(c, response) ==
    /\ pc[c] = "transport"
    /\ pc' = [pc EXCEPT ![c] = "idle"]
    /\ received' = [received EXCEPT ![c] =
                      [kind |-> "response", response |-> response, error |-> NoError]]
    /\ result' = [result EXCEPT ![c] = check_and_return_response(raise_for_status, response)]
    /\ call' = [call EXCEPT ![c] = NoCall]
    /\ invoked' = [invoked EXCEPT ![c] = NoInvocation]
    /\ UNCHANGED <<environ, init_args, client, init_error, self_vars, transport_calls>>

(*************************************************************************)
(* Transport failures: classes of requests.exceptions and their bases.   *)
(*************************************************************************)
Bases(class) ==
    CASE class = "ConnectionError" -> {"ConnectionError", "RequestException"}
      [] class = "SSLError" -> {"SSLError", "ConnectionError", "RequestException"}
      [] class = "ConnectTimeout" ->
            {"ConnectTimeout", "ConnectionError", "Timeout", "RequestException"}
      [] class = "ReadTimeout" -> {"ReadTimeout", "Timeout", "RequestException"}
      [] class = "Timeout" -> {"Timeout", "RequestException"}
      [] class = "TooManyRedirects" -> {"TooManyRedirects", "RequestException"}

CONNECTION_ERROR == "Error de conexión: "
TIMEOUT_ERROR == "Error de timeout: "
REQUEST_ERROR == "Error en la solicitud: "

\* the except clauses of __request, in their order
map_transport_error(error) ==
    IF "ConnectionError" \in Bases(error.class)
    THEN Raised("ApiException", <<CONNECTION_ERROR, error.detail>>, FALSE)
    ELSE IF "Timeout" \in Bases(error.class)
    THEN Raised("ApiException", <<TIMEOUT_ERROR, error.detail>>, FALSE)
    ELSE IF "RequestException" \in Bases(error.class)
    THEN Raised("ApiException", <<REQUEST_ERROR, error.detail>>, FALSE)
    ELSE Raised(error.class, <<error.detail>>, FALSE)

\* requests.request raises; __request maps the failure and ends
TransportRaises(c, error) ==
    /\ pc[c] = "transport"
    /\ pc' = [pc EXCEPT ![c] = "idle"]
    /\ received' = [received EXCEPT ![c] =
                      [kind |-> "error", response |-> NoResponse, error |-> error]]
    /\ result' = [result EXCEPT ![c] = map_transport_error(error)]
    /\ call' = [call EXCEPT ![c] = NoCall]
    /\ invoked' = [invoked EXCEPT ![c] = NoInvocation]
    /\ UNCHANGED <<environ, init_args, client, init_error, self_vars, transport_calls>>

(*************************************************************************)
(* Inputs.                                                               *)
(*************************************************************************)
DataValues ==
    {PyNone, PyStr(<<>>), PyStr(<<"raw">>),
     PyDict(<<>>, NoHeaders), PyDict(<<"a">>, [k \in {"a"} |-> PyInt(1)]),
     PyList(<<>>), PyList(<<PyInt(1), PyStr(<<"x">>)>>),
     PyInt(0), PyBool(FALSE), PyBool(TRUE)}

HeaderArgs ==
    {PyNone, PyDict(<<>>, NoHeaders),
     PyDict(<<"Accept">>, [k \in {"Accept"} |-> <<"text/plain">>]),
     PyDict(<<"accept">>, [k \in {"accept"} |-> <<"text/plain">>]),
     PyDict(<<"Authorization", "X-Trace">>,
            [k \in {"Authorization", "X-Trace"} |->
                IF k = "X-Trace" THEN <<"1">> ELSE <<"Bearer ", "other">>])}

StatusCodes == {200, 201, 204, 302, 399, 400, 404, 599, 600}

BodyTexts ==
    {"", "<html>Bad Gateway</html>", "{}",
     "{\"message\": \"not found\"}", "{\"exception\": \"boom\"}",
     "{\"message\": \"not found\", \"exception\": \"boom\"}",
     "{\"message\": \"\", \"exception\": \"boom\"}",
     "{\"message\": null, \"exception\": \"\"}",
     "[]", "\"oops\"", "42", "null"}

Responses == [status_code : StatusCodes, text : BodyTexts]

TransportErrors ==
    [class : {"ConnectionError", "SSLError", "ConnectTimeout", "ReadTimeout",
              "Timeout", "TooManyRedirects"},
     detail : {"Max retries exceeded"}]

Dte == <<"/", "dte">>

(*************************************************************************)
(* Spec: one client, built from a given or an environment token, and one *)
(* caller whose calls follow one another.                                *)
(*************************************************************************)
Init ==
    InitWith({PyNone, PyStr(<<" ", "s3cret", " ">>)}, {PyStr(<<"envtoken">>)},
             {PyNone}, {PyNone}, {PyNone}, BOOLEAN)

Next ==
    \/ Construct
    \/ \E h \in HeaderArgs : get(1, Dte, h)
    \/ \E h \in HeaderArgs : delete(1, Dte, h)
    \/ \E d \in DataValues, h \in HeaderArgs : post(1, Dte, d, h)
    \/ \E d \in DataValues, h \in HeaderArgs : put(1, Dte, d, h)
    \/ \E r \in Responses : TransportReturns(1, r)
    \/ \E e \in TransportErrors : TransportRaises(1, e)

Spec == Init /\ [][Next]_vars

(*************************************************************************)
(* SpecShared: one client shared by all the callers, whose calls         *)
(* interleave while they wait for the transport.                         *)
(*************************************************************************)
SharedHeaderArgs ==
    {PyNone,
     PyDict(<<"Authorization", "X-Trace">>,
            [k \in {"Authorization", "X-Trace"} |->
                IF k = "X-Trace" THEN <<"1">> ELSE <<"Bearer ", "other">>])}

SharedDataValues == {PyDict(<<"a">>, [k \in {"a"} |-> PyInt(1)]), PyStr(<<"raw">>)}

SharedResponses == [status_code : {200, 404}, text : {"{\"message\": \"not found\"}", "[]"}]

SharedErrors == [class : {"ReadTimeout"}, detail : {"Max retries exceeded"}]

InitShared ==
    InitWith({PyStr(<<"s3cret">>)}, {PyNone}, {PyNone}, {PyNone}, {PyNone}, BOOLEAN)

NextShared ==
    \/ Construct
    \/ \E c \in Callers, h \in SharedHeaderArgs : get(c, Dte, h)
    \/ \E c \in Callers, h \in SharedHeaderArgs : delete(c, Dte, h)
    \/ \E c \in Callers, d \in SharedDataValues, h \in SharedHeaderArgs : post(c, Dte, d, h)
    \/ \E c \in Callers, d \in SharedDataValues, h \in SharedHeaderArgs : put(c, Dte, d, h)
    \/ \E c \in Callers, r \in SharedResponses : TransportReturns(c, r)
    \/ \E c \in Callers, e \in SharedErrors : TransportRaises(c, e)

SpecShared == InitShared /\ [][NextShared]_vars

(*************************************************************************)
(* SpecInit: the constructor, for every token argument and every value   *)
(* of BHEXPRESS_API_TOKEN up to MaxTokenLen atoms.                       *)
(*************************************************************************)
TokenValues == {PyNone} \cup {PyStr(t) : t \in StringsUpTo({" ", "a"}, MaxTokenLen)}

InitInit ==
    InitWith(TokenValues, TokenValues, {PyNone}, {PyNone}, {PyNone}, {TRUE})

NextInit == Construct

SpecInit == InitInit /\ [][NextInit]_vars

(*************************************************************************)
(* SpecUrl: the URL handed to the transport, for base URLs (given or     *)
(* from BHEXPRESS_API_URL), versions and resources.                      *)
(*************************************************************************)
Host == <<"https:", "/", "/", "bhexpress.cl">>

UrlArgs == {PyNone} \cup {PyStr(Host \o t) : t \in StringsUpTo({"/", "pfx"}, MaxBaseTail)}

EnvUrls == {PyNone, PyStr(<<" ">> \o Host \o <<"/", "staging", " ">>)}

VersionArgs == {PyNone, PyStr(<<"v2">>)}

Resources == StringsUpTo({"/", "dte", "."}, MaxResourceLen)

InitUrl ==
    InitWith({PyStr(<<"s3cret">>)}, {PyNone}, UrlArgs, EnvUrls, VersionArgs, {TRUE})

NextUrl ==
    \/ Construct
    \/ \E r \in Resources : get(1, r, PyNone)
    \/ TransportReturns(1, [status_code |-> 200, text |-> "{}"])

SpecUrl == InitUrl /\ [][NextUrl]_vars

(*************************************************************************)
(* Properties.                                                           *)
(*************************************************************************)
\* the transport returned a response to the last call of c
GotResponse(c) == received[c].kind = "response"

\* the transport raised in the last call of c
GotError(c) == received[c].kind = "error"

Status(c) == received[c].response.status_code

C2_ResponseReturnedUntouched ==
    \A c \in Callers :
        (GotResponse(c) /\ (~raise_for_status \/ Status(c) = 200)) =>
            /\ result[c].kind = "return"
            /\ result[c].response = received[c].response
            /\ result[c].message = <<>>
            /\ ~result[c].json_called

\* a 404 with an error body was returned because raise_for_status is false
C2_Witness ==
    \E c \in Callers :
        /\ GotResponse(c) /\ ~raise_for_status /\ Status(c) = 404
        /\ received[c].response.text = "{\"message\": \"not found\"}"
        /\ result[c].kind = "return"

\* the mapping a caller passed as headers (none: the empty mapping)
Given(c) == IF invoked[c].headers.type = "dict" THEN invoked[c].headers.map ELSE NoHeaders

\* C5: the headers sent are the defaults overridden by the caller's: the
\* caller's value for each of its keys, the default value for each default key
\* the caller did not pass (names compared case-sensitively), no other key;
\* without caller headers, the defaults.
C5_HeadersMerged ==
    \A c \in Callers :
        pc[c] = "transport" =>
            /\ DOMAIN call[c].sent.headers = DOMAIN headers \cup DOMAIN Given(c)
            /\ \A k \in DOMAIN Given(c) : call[c].sent.headers[k] = Given(c)[k]
            /\ \A k \in DOMAIN headers \ DOMAIN Given(c) :
                    call[c].sent.headers[k] = headers[k]
            /\ (invoked[c].headers.type = "NoneType" => call[c].sent.headers = headers)

\* a caller overrode Authorization and added X-Trace: its values are sent, the
\* other defaults are kept
C5_Witness ==
    \E c \in Callers :
        /\ pc[c] = "transport"
        /\ DOMAIN Given(c) = {"Authorization", "X-Trace"}
        /\ call[c].sent.headers["Authorization"] = <<"Bearer ", "other">>
        /\ call[c].sent.headers["Authorization"] # headers["Authorization"]
        /\ call[c].sent.headers["Accept"] = <<"application/json">>

\* C6: post and put send the JSON serialization of every data that is given
\* and is no string (also {}, [], 0, False), a string unchanged, and nothing
\* when data is absent; get and delete send no body.
C6_BodyEncoded ==
    \A c \in Callers :
        pc[c] = "transport" =>
            IF invoked[c].verb \in {"post", "put"}
            THEN CASE invoked[c].data.type = "NoneType" -> call[c].sent.data = PyNone
                   [] invoked[c].data.type = "str" -> call[c].sent.data = invoked[c].data
                   [] OTHER -> call[c].sent.data = PyStr(json_dumps(invoked[c].data))
            ELSE call[c].sent.data = PyNone

\* the message the claim C7 gives a transport failure: a timeout of any kind
\* gets the timeout message, another connection failure the connection
\* message, any other failure the request message
C7_Message(error) ==
    IF "Timeout" \in Bases(error.class) THEN <<TIMEOUT_ERROR, error.detail>>
    ELSE IF "ConnectionError" \in Bases(error.class) THEN <<CONNECTION_ERROR, error.detail>>
    ELSE <<REQUEST_ERROR, error.detail>>

\* C7: every transport failure surfaces as ApiException with the message of
\* its category; every timeout, a connect timeout too, gets the timeout message.
C7_FailureMessageByCategory ==
    \A c \in Callers :
        GotError(c) =>
            /\ result[c].kind = "ApiException"
            /\ result[c].message = C7_Message(received[c].error)

\* the message the claim C8 gives an error body
C8_Message(text) ==
    IF ~json_loads(text).ok THEN <<JSON_ERROR, text>>
    ELSE IF json_loads(text).value.type # "dict" THEN <<UNKNOWN_ERROR>>
    ELSE IF Truthy(dict_get(json_loads(text).value, "message"))
    THEN dict_get(json_loads(text).value, "message").chars
    ELSE IF Truthy(dict_get(json_loads(text).value, "exception"))
    THEN dict_get(json_loads(text).value, "exception").chars
    ELSE <<UNKNOWN_ERROR>>

\* C8: a response that is not returned (an HTTP error) always raises
\* ApiException, with message "Error HTTP: " + m, m taken from the body; a
\* parsed body that is no object gets the unknown-error text.
C8_HttpErrorMessage ==
    \A c \in Callers :
        (GotResponse(c) /\ result[c].kind # "return") =>
            /\ result[c].kind = "ApiException"
            /\ result[c].message = <<HTTP_ERROR>> \o C8_Message(received[c].response.text)

VerbMethod(verb) ==
    CASE verb = "get" -> "GET"
      [] verb = "delete" -> "DELETE"
      [] verb = "post" -> "POST"
      [] verb = "put" -> "PUT"

\* C9: a verb makes exactly one transport call, with the method of the verb,
\* and then ends by returning a response or raising ApiException; a failure or
\* an HTTP error causes no second call, and construction makes none.
C9_OneCallThenReturnOrApiException ==
    \A c \in Callers :
        /\ pc[c] = "transport" =>
                /\ transport_calls[c] = 1
                /\ call[c].sent.method = VerbMethod(invoked[c].verb)
        /\ (pc[c] = "idle" /\ received[c].kind # "none") =>
                /\ transport_calls[c] = 1
                /\ result[c].kind \in {"return", "ApiException"}
        /\ (pc[c] = "idle" /\ received[c].kind = "none") => transport_calls[c] = 0

\* C10: whatever calls ran or are running, the client holds what its
\* constructor computed, the caller's header mapping is as the caller passed
\* it, and a request is made of the arguments of its call and of that
\* configuration only.
C10_ConfigurationNeverChanges ==
    client = "built" =>
        /\ token = validate_token(environ, init_args.token).value
        /\ url = validate_url(environ, init_args.url)
        /\ version = Or(init_args.version, PyStr(DEFAULT_VERSION)).chars
        /\ raise_for_status = init_args.raise_for_status
        /\ headers = generate_headers(validate_token(environ, init_args.token).value)
        /\ \A c \in Callers :
                pc[c] = "transport" =>
                    /\ call[c].headers = invoked[c].headers
                    /\ call[c].sent.url
                         = full_url(validate_url(environ, init_args.url),
                                    Or(init_args.version, PyStr(DEFAULT_VERSION)).chars,
                                    invoked[c].resource)
                    /\ call[c].sent.headers
                         = merge_headers(
                              generate_headers(validate_token(environ, init_args.token).value),
                              invoked[c].headers)
                    /\ call[c].sent.data = encode_body(invoked[c].data)

\* two calls wait for the transport at once, one with headers that override
\* Authorization, one without headers, after a call that raised
C10_Witness ==
    \E c \in Callers, d \in Callers :
        /\ c # d
        /\ pc[c] = "transport" /\ invoked[c].headers.type = "dict"
        /\ pc[d] = "transport" /\ invoked[d].headers.type = "NoneType"
        /\ call[d].sent.headers["Authorization"] = <<"Token ", "s3cret">>

\* C3: construction fails or leaves a token that is not empty and has no
\* whitespace at its ends, with Authorization "Token " + token; a given token
\* that is empty after trimming is not used, the environment variable is.
C3_TokenNonEmptyAndTrimmed ==
    client = "built" =>
        /\ token # <<>>
        /\ token[1] \notin Whitespace
        /\ token[Len(token)] \notin Whitespace
        /\ headers["Authorization"] = <<"Token ">> \o token
        /\ token = IF init_args.token.type = "str" /\ strip(init_args.token.chars) # <<>>
                   THEN strip(init_args.token.chars)
                   ELSE strip(environ.BHEXPRESS_API_TOKEN.chars)

\* the URL the claim C4 gives: B without one trailing '/', one '/', "api/" V R
C4_Url(B, V, R) ==
    (IF B # <<>> /\ B[Len(B)] = "/" THEN SubSeq(B, 1, Len(B) - 1) ELSE B)
    \o <<"/", "api", "/">> \o V \o R

\* C4: the URL handed to the transport is B (less one trailing '/'), one '/',
\* then "api/" + V + R with V and R verbatim.
C4_UrlIsConcatenation ==
    \A c \in Callers :
        pc[c] = "transport" =>
            call[c].sent.url = C4_Url(url, version, invoked[c].resource)

=============================================================================
